---- MODULE Spec2Model ----
(***************************************************************************)
(* EduVisualizer (src/app.py): a Streamlit script that is re-executed from *)
(* top to bottom on every user interaction.  The state is                  *)
(* st.session_state (client, base_character, character_description,        *)
(* api_calls, concept_images) plus the file-uploader widget, whose value   *)
(* survives reruns.  Every action below is one complete rerun of the       *)
(* script with at most one button pressed.                                 *)
(*                                                                         *)
(* Texts (labels, prompts, model output) are sequences of tokens, each     *)
(* token an indivisible run of characters, so that startswith, endswith,   *)
(* slicing, strip and concatenation are computed as Python computes them.  *)
(* Image byte strings are named by strings; None is the None of Python and *)
(* Empty the byte string of length zero.                                   *)
(***************************************************************************)
EXTENDS Integers, Sequences, FiniteSets, TLC

VARIABLES
    client,                 \* st.session_state.client is configured
    base_character,         \* st.session_state.base_character
    character_description,  \* st.session_state.character_description
    api_calls,              \* st.session_state.api_calls
    concept_images,         \* st.session_state.concept_images (label -> bytes)
    uploaded_image,         \* value of the st.file_uploader widget
    gen_ok,                 \* history: generate_image calls of handlers that returned
    run,                    \* history: what the last rerun (or direct call) did
    requests                \* history: outbound requests of the last rerun, in order

vars == <<client, base_character, character_description, api_calls,
          concept_images, uploaded_image, gen_ok, run, requests>>

(***************************************************************************)
(* Bounds                                                                  *)
(***************************************************************************)
\* successful generation calls in one behaviour
MaxCalls == 2
\* distinct images the generation API can return
MaxImg == 2
\* tokens in a concept label (edits prepend one token)
MaxLabelLen == 2

(***************************************************************************)
(* Values                                                                  *)
(***************************************************************************)
None == "None"

\* b"", the byte string of length zero
Empty == ""

\* truth value of a stored image (lines 272, 388): None and b"" are false
Truthy(img) == img \notin {None, Empty}

ImageNames == <<"img1", "img2", "img3", "img4">>

\* non-empty image byte strings the generation API can return
ApiImages == {ImageNames[i] : i \in 1..MaxImg}

\* what part.inline_data.data can be: bytes, possibly of length zero, or None
\* (the field is optional)
ApiPayloads == ApiImages \cup {Empty, None}

\* files the user can drop on the uploader: one PIL can open, one it cannot
UploadFiles == {"photo.png", "broken.png"}

Decodable(file) == file = "photo.png"

\* Image.open / thumbnail / convert to RGB / save as JPEG: the stored
\* bytes are a re-encoding, never the uploaded bytes themselves
JpegOf(file) == IF file = "photo.png" THEN "jpeg(photo.png)" ELSE None

IsWhitespace(tok) == tok \in {" ", "\n"}

\* not s.strip()
IsBlank(s) == \A i \in 1..Len(s) : IsWhitespace(s[i])

RECURSIVE LStrip(_)
LStrip(s) == IF s # <<>> /\ IsWhitespace(Head(s)) THEN LStrip(Tail(s)) ELSE s

RECURSIVE RStrip(_)
RStrip(s) ==
    IF s # <<>> /\ IsWhitespace(s[Len(s)]) THEN RStrip(SubSeq(s, 1, Len(s) - 1)) ELSE s

\* str.strip()
Strip(s) == RStrip(LStrip(s))

(***************************************************************************)
(* generate_image                                                          *)
(***************************************************************************)
\* types.Part.from_text(text=prompt)
TextPart(prompt) == [kind |-> "text", text |-> prompt, data |-> None]

\* types.Part(inline_data=types.Blob(mime_type="image/jpeg", data=bytes))
ImagePart(bytes) == [kind |-> "image", text |-> <<>>, data |-> bytes]

NoRef == [shape |-> "none", data |-> None]

Bytes(b) == [shape |-> "bytes", data |-> b]

\* the reference_image argument as the callers pass it
AsReference(img) == IF img = None THEN NoRef ELSE Bytes(img)

\* an unusable reference dropped without the warning of line 82
PrepareReferenceSilently(ref) ==
    IF ref.shape \in {"bytes", "bytesio"}
    THEN [parts |-> <<ImagePart(ref.data)>>, warned |-> FALSE]
    ELSE [parts |-> <<>>, warned |-> FALSE]

\* lines 65-82: the image part appended for the reference image, if any, and
\* whether the preparation warning was shown
PrepareReference(ref) ==
    IF ref.shape = "none" THEN [parts |-> <<>>, warned |-> FALSE]
    ELSE IF ref.shape = "bytes"
        THEN [parts |-> <<ImagePart(ref.data)>>, warned |-> FALSE]
    ELSE IF ref.shape = "bytesio"
        THEN [parts |-> <<ImagePart(ref.data)>>, warned |-> FALSE]
    ELSE [parts |-> <<>>, warned |-> TRUE]

\* the reference image attached twice
BuildPartsTwice(prompt, ref) ==
    <<TextPart(prompt)>> \o PrepareReference(ref).parts \o PrepareReference(ref).parts

\* lines 62-84
BuildParts(prompt, ref) == <<TextPart(prompt)>> \o PrepareReference(ref).parts

NotFound == [found |-> FALSE, data |-> None]

\* a response part is "text" (a part without inline data) or the data field
\* of its inline blob.  Lines 99-102: the first part with an inline blob ends
\* the search and its data are returned as they are, None and b"" included
RECURSIVE FirstImage(_)
FirstImage(parts) ==
    IF parts = <<>> THEN NotFound
    ELSE IF Head(parts) # "text" THEN [found |-> TRUE, data |-> Head(parts)]
    ELSE FirstImage(Tail(parts))

\* lines 93-102 on a response that arrived; found = FALSE is a ValueError
ExtractImage(resp) ==
    IF resp.candidates = <<>> THEN NotFound
    ELSE FirstImage(resp.candidates[1])

NoRequest == [model |-> "none", parts |-> <<>>]

\* lines 58-104: result of one call; ok = FALSE is the raised exception,
\* ok = TRUE the return of line 101, whose value is data (None when the
\* inline blob of the answer holds no data)
generate_image(cl, prompt, ref, resp) ==
    IF ~cl THEN [ok |-> FALSE, data |-> None, request |-> NoRequest, warned |-> FALSE]
    ELSE LET prep == PrepareReference(ref)
             req == [model |-> "IMAGE_MODEL", parts |-> BuildParts(prompt, ref)]
             img == IF resp.raises THEN NotFound ELSE ExtractImage(resp)
         IN [ok |-> img.found, data |-> img.data, request |-> req,
             warned |-> prep.warned]

GenFailures ==
    { [raises |-> TRUE, candidates |-> <<>>],
      [raises |-> FALSE, candidates |-> <<>>],
      [raises |-> FALSE, candidates |-> << <<>> >>],
      [raises |-> FALSE, candidates |-> << <<"text">> >>] }

GenResponses ==
    GenFailures
    \cup { [raises |-> FALSE, candidates |-> << <<d>> >>] : d \in ApiPayloads }
    \cup { [raises |-> FALSE, candidates |-> << <<"text", d>> >>] : d \in ApiImages }

\* the answers given to the calls of the handlers, which see of a call only
\* whether it returned and what: a transport error, an answer without inline
\* data, and one answer for each value the data field can have
HandlerResponses ==
    { [raises |-> TRUE, candidates |-> <<>>],
      [raises |-> FALSE, candidates |-> << <<"text">> >>] }
    \cup { [raises |-> FALSE, candidates |-> << <<d>> >>] : d \in ApiPayloads }

Unused == [raises |-> TRUE, candidates |-> <<>>]

(***************************************************************************)
(* analyze_image_and_get_fixes                                             *)
(***************************************************************************)
\* the seven characters matched at line 185: three backquotes and json
FenceJson == "<fence>json"

\* the three backquotes matched at line 187
Fence == "<fence>"

\* JSON documents the reviewer can answer with, and json.loads of each
JsonLists == {"[]", "[f]", "[f,g]"}

JsonDocuments == JsonLists \cup {"{}"}

ListOf(doc) ==
    IF doc = "[f]" THEN <<"f">>
    ELSE IF doc = "[f,g]" THEN <<"f", "g">>
    ELSE <<>>

\* lines 184-189
CleanOutput(raw) ==
    LET stripped == Strip(raw)
        opened == IF stripped # <<>> /\ Head(stripped) = FenceJson
                  THEN Tail(stripped) ELSE stripped
        closed == IF opened # <<>> /\ opened[Len(opened)] = Fence
                  THEN SubSeq(opened, 1, Len(opened) - 1) ELSE opened
    IN Strip(closed)

\* line 191: a text is a JSON document iff it is exactly one document token
JsonValid(text) == Len(text) = 1 /\ text[1] \in JsonDocuments

\* lines 178-206: what the answer of the reviewer is taken to be
Classify(cl, resp) ==
    IF ~cl THEN "no_client"
    ELSE IF resp.kind # "text" THEN resp.kind
    ELSE LET cleaned == CleanOutput(Strip(resp.text))
         IN IF ~JsonValid(cleaned) THEN "bad_json"
            ELSE IF cleaned[1] \in JsonLists THEN "list"
            ELSE "not_list"

\* exceptions the body of analyze_image_and_get_fixes can raise
ReviewErrors == {"ValueError", "APIError", "AttributeError", "JSONDecodeError"}

\* lines 111-196 before any except clause: the list returned, or the
\* exception raised (line 113 without a client, line 170 on a transport
\* error, lines 178-179 on a candidate without content or a part without
\* text, line 191 on text that is no JSON)
ReviewBody(cl, resp) ==
    IF ~cl THEN [raised |-> "ValueError", fixes |-> <<>>]
    ELSE IF resp.kind = "raise" THEN [raised |-> "APIError", fixes |-> <<>>]
    ELSE IF resp.kind \in {"no_content", "no_text"}
        THEN [raised |-> "AttributeError", fixes |-> <<>>]
    ELSE IF resp.kind \in {"no_candidates", "no_parts"}
        THEN [raised |-> "none", fixes |-> <<>>]
    ELSE IF ~JsonValid(CleanOutput(Strip(resp.text)))
        THEN [raised |-> "JSONDecodeError", fixes |-> <<>>]
    ELSE IF CleanOutput(Strip(resp.text))[1] \in JsonLists
        THEN [raised |-> "none", fixes |-> ListOf(CleanOutput(Strip(resp.text))[1])]
    ELSE [raised |-> "none", fixes |-> <<>>]

\* line 197: except json.JSONDecodeError
CaughtInner(exc) == exc = "JSONDecodeError"

\* a handler that catches the missing client only
CaughtValueErrorOnly(exc) == exc = "ValueError"

\* line 204: except Exception
CaughtOuter(exc) == exc \in ReviewErrors

\* lines 111-206: a caught exception gives the empty list
analyze_image_and_get_fixes(cl, image_data, resp) ==
    LET body == ReviewBody(cl, resp)
        caught == body.raised # "none"
                  /\ (CaughtInner(body.raised) \/ CaughtOuter(body.raised))
    IN [fixes |-> IF body.raised = "none" THEN body.fixes ELSE <<>>,
        class |-> Classify(cl, resp),
        raised |-> IF caught THEN "none" ELSE body.raised,
        ok |-> body.raised = "none" \/ caught,
        request |-> IF cl
                    THEN [model |-> "REVIEW_MODEL",
                          parts |-> <<ImagePart(image_data), TextPart(<<"analysis">>)>>]
                    ELSE NoRequest]

CritFailureKinds == {"raise", "no_candidates", "no_content", "no_parts", "no_text"}

Opens == {<<>>, <<FenceJson>>, <<Fence>>}

Closes == {<<>>, <<Fence>>}

Bodies == {<<>>} \cup {<<doc>> : doc \in JsonDocuments \cup {"oops"}}

Gaps == {<<>>, <<"\n">>}

\* answers of the reviewer: an optional opening fence, a body, an optional
\* closing fence, with or without line breaks around them
RawTexts == {g \o o \o g \o b \o g \o c \o g :
                o \in Opens, b \in Bodies, c \in Closes, g \in Gaps}

CritResponses ==
    {[kind |-> k, text |-> <<>>] : k \in CritFailureKinds}
    \cup {[kind |-> "text", text |-> t] : t \in RawTexts}

NoCritique == [kind |-> "raise", text |-> <<>>]

\* the answers explored inside a concept run: every kind of failure, plain
\* and fenced lists of each length, a non-list document, and text that is
\* no JSON
SceneTexts ==
    {<<doc>> : doc \in JsonDocuments \cup {"oops"}}
    \cup {<<FenceJson, "\n", "[f]", "\n", Fence>>, <<Fence, "\n", "[f]", "\n", Fence>>}

SceneReviews ==
    {[kind |-> k, text |-> <<>>] : k \in CritFailureKinds}
    \cup {[kind |-> "text", text |-> t] : t \in SceneTexts}

(***************************************************************************)
(* session state after construction (lines 10-11, 31-38)                   *)
(***************************************************************************)
NoRun ==
    [handler |-> "none", outcome |-> "none", concept |-> <<>>, draft |-> None,
     critique |-> "none", answer |-> <<>>, raised |-> "none", fixes |-> <<>>,
     final |-> None, ref |-> NoRef, warned |-> FALSE, display |-> "none"]

EmptyMap == [l \in {} |-> None]

Init ==
    /\ client = FALSE
    /\ base_character = None
    /\ character_description = <<>>
    /\ api_calls = 0
    /\ concept_images = EmptyMap
    /\ uploaded_image = None
    /\ gen_ok = 0
    /\ run = NoRun
    /\ requests = <<>>

(***************************************************************************)
(* Inputs of the widgets                                                   *)
(***************************************************************************)
\* text typed in "Describe your educational character"
CharacterDescs == {<<>>, <<" ">>, <<"A curious student">>}

\* concept_options (lines 274-279), the first of the fixed list
ConceptOptions == {<<"Photosynthesis process">>}

\* text typed in "Or enter your own concept"
CustomConcepts == {<<>>, <<" ">>, <<"Volcano">>, <<"Edited_", "Volcano">>}

\* text typed in the edit box
EditPrompts == {<<" ">>, <<"Add a label">>}

(***************************************************************************)
(* Character upload (lines 250-269): runs on every rerun while a file is   *)
(* held by the uploader                                                    *)
(***************************************************************************)
UploadedCharacter(file, base) ==
    IF file # None /\ Decodable(file) THEN JpegOf(file) ELSE base

UploadedDescription(file, desc) ==
    IF file # None /\ Decodable(file) THEN <<"Uploaded character image">> ELSE desc

(***************************************************************************)
(* Gallery (lines 364-385)                                                 *)
(***************************************************************************)
\* concept.startswith("Edited_")
IsEdited(label) == label # <<>> /\ Head(label) = "Edited_"

\* concept[7:]
OriginOf(label) == Tail(label)

\* the edit written over the entry it was made from
SameLabel(label) == label

\* line 422: f"Edited_{selected_concept_for_edit}"
EditedLabel(label) == <<"Edited_">> \o label

\* labels the gallery shows: every key, and the origin of every edited key
GalleryLabels(map) ==
    DOMAIN map \cup {OriginOf(l) : l \in {k \in DOMAIN map : IsEdited(k)}}

\* lines 381, 385: st.session_state.concept_images[concept] raises KeyError
\* for the origin of an edited key that is no key itself
MissingOrigin(map) == \E l \in GalleryLabels(map) : l \notin DOMAIN map

\* st.image(value) (lines 237, 349, 381, 385, 399, 424) shows a byte string
\* that holds an image and raises on None and on b"", in which no image can
\* be identified
Displayable(img) == img \notin {None, Empty}

\* the result display of a handler (lines 237, 345-349, 424), inside its try:
\* when st.image raises, the error message of the handler follows the
\* success message; what was stored and counted before stays
ResultDisplay(img) == IF Displayable(img) THEN "shown" ELSE "raised"

\* lines 377-385: the gallery shows every label of its list outside any try;
\* a KeyError of the lookup or an entry st.image cannot show ends the rerun
\* before the editing section, on every rerun while the map is as it is
GalleryRaises(map) ==
    \E l \in GalleryLabels(map) : l \notin DOMAIN map \/ ~Displayable(map[l])

(***************************************************************************)
(* Reruns without a button: API key, file uploader                         *)
(***************************************************************************)
Log(handler, outcome) == [NoRun EXCEPT !.handler = handler, !.outcome = outcome]

\* lines 41-49: a key is typed; genai.Client may raise, which keeps the old client
EnterApiKey ==
    \E created \in BOOLEAN :
        /\ client' = (created \/ client)
        /\ base_character' = UploadedCharacter(uploaded_image, base_character)
        /\ character_description' =
               UploadedDescription(uploaded_image, character_description)
        /\ run' = Log("api_key", IF created THEN "Accepted" ELSE "Rejected")
        /\ requests' = <<>>
        /\ UNCHANGED <<api_calls, concept_images, uploaded_image, gen_ok>>

\* lines 250-269: a file is dropped on the uploader
ChooseFile ==
    \E file \in UploadFiles :
        /\ uploaded_image' = file
        /\ base_character' = UploadedCharacter(file, base_character)
        /\ character_description' = UploadedDescription(file, character_description)
        /\ run' = Log("upload", IF Decodable(file) THEN "Accepted" ELSE "Rejected")
        /\ requests' = <<>>
        /\ UNCHANGED <<client, api_calls, concept_images, gen_ok>>

\* the file is removed from the uploader
RemoveFile ==
    /\ uploaded_image # None
    /\ uploaded_image' = None
    /\ run' = Log("upload", "none")
    /\ requests' = <<>>
    /\ UNCHANGED <<client, base_character, character_description, api_calls,
                   concept_images, gen_ok>>

(***************************************************************************)
(* Generate Base Character (lines 218-247)                                 *)
(***************************************************************************)
\* the request a call put on the wire, if it got that far, and whether the
\* call returned (rather than raised)
Sent(call) ==
    IF call.request = NoRequest THEN <<>>
    ELSE <<[model |-> call.request.model, parts |-> call.request.parts,
            returned |-> call.ok]>>

GenerateBaseCharacter ==
    /\ gen_ok < MaxCalls
    /\ \E desc \in CharacterDescs, resp \in HandlerResponses :
        \E g \in {generate_image(client, <<"character">>, NoRef, resp)} :
        LET valid == client /\ ~IsBlank(desc)
            done == valid /\ g.ok
        IN /\ base_character' =
                 UploadedCharacter(uploaded_image,
                                   IF done THEN g.data ELSE base_character)
           /\ character_description' =
                 UploadedDescription(uploaded_image,
                                     IF done THEN desc ELSE character_description)
           /\ api_calls' = IF done THEN api_calls + 1 ELSE api_calls
           /\ gen_ok' = IF done THEN gen_ok + 1 ELSE gen_ok
           /\ run' = [Log("character",
                          IF ~valid THEN "Rejected"
                          ELSE IF g.ok THEN "Accepted" ELSE "GenerationFailed")
                          EXCEPT !.final = IF done THEN g.data ELSE None,
                                 !.display = IF done THEN ResultDisplay(g.data)
                                             ELSE "none"]
           /\ requests' = IF valid THEN Sent(g) ELSE <<>>
           /\ UNCHANGED <<client, concept_images, uploaded_image>>

(***************************************************************************)
(* Generate Concept Scene (lines 272-361)                                  *)
(***************************************************************************)
\* line 286
ConceptOf(custom, selected) == IF custom # <<>> THEN custom ELSE selected

\* a repair pass whatever the reviewer said
NeedsRepairAlways(fixes) == TRUE

\* line 321: if fixes
NeedsRepair(fixes) == fixes # <<>>

\* lines 325-334: one instruction holding every fix
FixPrompt(fixes) == <<"fix">> \o fixes

\* the repair call anchored on the character instead of the draft
RepairFromCharacter(draft, base) == base

\* line 336: the image handed to the repair call as reference
RepairReference(draft, base) == draft

\* lines 337, 342, 422: concept_images[label] = img
StoreImage(map, label, img) == (label :> img) @@ map

\* the assignment made whether or not the repair call returned
StoreWhateverCame(map, concept, repair) == StoreImage(map, concept, repair.data)

\* lines 336-337: the assignment is reached only when the repair call returns
AfterRepair(map, concept, repair) ==
    IF repair.ok THEN StoreImage(map, concept, repair.data) ELSE map

\* lines 341-342: no fixes, the draft is the result
AcceptDraft(map, concept, draft) == StoreImage(map, concept, draft)

\* lines 314-342 given what the calls returned: d the draft call, a the
\* review, rep the repair call (consulted only when it is made)
ConceptRun(map, concept, d, a, rep) ==
    IF ~d.ok
    THEN [outcome |-> "GenerationFailed", draft |-> None, critique |-> "none",
          raised |-> "none", fixes |-> <<>>, final |-> None, store |-> map,
          counted |-> 0, returned |-> 0, requests |-> Sent(d)]
    ELSE IF a.raised # "none"
    THEN [outcome |-> "GenerationFailed", draft |-> d.data, critique |-> a.class,
          raised |-> a.raised, fixes |-> <<>>, final |-> None, store |-> map,
          counted |-> 1, returned |-> 1, requests |-> Sent(d) \o Sent(a)]
    ELSE IF ~NeedsRepair(a.fixes)
    THEN [outcome |-> "Accepted", draft |-> d.data, critique |-> a.class,
          raised |-> "none", fixes |-> a.fixes, final |-> d.data,
          store |-> AcceptDraft(map, concept, d.data), counted |-> 1,
          returned |-> 1, requests |-> Sent(d) \o Sent(a)]
    ELSE [outcome |-> IF rep.ok THEN "Accepted" ELSE "GenerationFailed",
          draft |-> d.data, critique |-> a.class, raised |-> "none",
          fixes |-> a.fixes, final |-> rep.data,
          store |-> AfterRepair(map, concept, rep),
          counted |-> IF rep.ok THEN 2 ELSE 1,
          returned |-> IF rep.ok THEN 2 ELSE 1,
          requests |-> Sent(d) \o Sent(a) \o Sent(rep)]

\* the answers that are consulted: the reviewer is asked only about a draft,
\* the repair call is made only for a non-empty list
ReviewsFor(d) == IF d.ok THEN SceneReviews ELSE {NoCritique}

\* line 336 is reached
RepairMade(d, a) == d.ok /\ a.raised = "none" /\ NeedsRepair(a.fixes)

RepairsFor(d, a) == IF RepairMade(d, a) THEN HandlerResponses ELSE {Unused}

GenerateConceptScene ==
    LET base == UploadedCharacter(uploaded_image, base_character)
    IN /\ gen_ok < MaxCalls
       /\ Truthy(base)
       /\ \E selected \in ConceptOptions, custom \in CustomConcepts :
           LET concept == ConceptOf(custom, selected)
               valid == client /\ ~IsBlank(concept)
           IN /\ Len(concept) <= MaxLabelLen
              /\ base_character' = base
              /\ character_description' =
                     UploadedDescription(uploaded_image, character_description)
              /\ UNCHANGED <<client, uploaded_image>>
              /\ IF ~valid
                 THEN /\ run' = [Log("concept", "Rejected") EXCEPT !.concept = concept]
                      /\ requests' = <<>>
                      /\ UNCHANGED <<concept_images, api_calls, gen_ok>>
                 ELSE \E r1 \in HandlerResponses :
                      \E d \in {generate_image(TRUE, <<"concept">>,
                                                AsReference(base), r1)} :
                      \E cr \in ReviewsFor(d) :
                      \E a \in {analyze_image_and_get_fixes(TRUE, d.data, cr)} :
                      \E r2 \in RepairsFor(d, a) :
                      \E rep \in {generate_image(TRUE, FixPrompt(a.fixes),
                                       AsReference(RepairReference(d.data, base)),
                                       r2)} :
                      \E r \in {ConceptRun(concept_images, concept, d, a, rep)} :
                           /\ gen_ok + r.returned <= MaxCalls
                           /\ concept_images' = r.store
                           /\ api_calls' = api_calls + r.counted
                           /\ gen_ok' = gen_ok + r.returned
                           /\ run' = [Log("concept", r.outcome) EXCEPT
                                         !.concept = concept, !.draft = r.draft,
                                         !.critique = r.critique, !.fixes = r.fixes,
                                         !.answer = IF d.ok THEN cr.text ELSE <<>>,
                                         !.raised = r.raised, !.final = r.final,
                                         !.display = IF r.outcome = "Accepted"
                                                     THEN ResultDisplay(r.final)
                                                     ELSE "none",
                                         !.ref = IF RepairMade(d, a)
                                                 THEN AsReference(
                                                          RepairReference(d.data, base))
                                                 ELSE NoRef]
                           /\ requests' = r.requests

(***************************************************************************)
(* Apply Edits (lines 388-426)                                             *)
(***************************************************************************)
ApplyEdits ==
    LET base == UploadedCharacter(uploaded_image, base_character)
    IN /\ gen_ok < MaxCalls
       /\ DOMAIN concept_images # {}
       /\ Truthy(base)
       /\ ~GalleryRaises(concept_images)
       /\ \E selected \in DOMAIN concept_images, edit \in EditPrompts,
             resp \in HandlerResponses :
           \E g \in {generate_image(client, <<"edit">> \o edit,
                                     AsReference(concept_images[selected]), resp)} :
           LET valid == ~IsBlank(edit)
               done == valid /\ g.ok
           IN /\ Len(selected) < MaxLabelLen
              /\ concept_images' =
                     IF done
                     THEN StoreImage(concept_images, EditedLabel(selected), g.data)
                     ELSE concept_images
              /\ gen_ok' = IF done THEN gen_ok + 1 ELSE gen_ok
              /\ run' = [Log("edit",
                             IF ~valid THEN "Rejected"
                             ELSE IF g.ok THEN "Accepted" ELSE "GenerationFailed")
                             EXCEPT !.concept = selected,
                                    !.final = IF done THEN g.data ELSE None,
                                    !.display = IF done THEN ResultDisplay(g.data)
                                                ELSE "none",
                                    !.ref = IF valid
                                            THEN AsReference(concept_images[selected])
                                            ELSE NoRef]
              /\ requests' = IF valid THEN Sent(g) ELSE <<>>
              /\ base_character' = base
              /\ character_description' =
                     UploadedDescription(uploaded_image, character_description)
              /\ UNCHANGED <<client, api_calls, uploaded_image>>

Next ==
    \/ EnterApiKey
    \/ ChooseFile
    \/ RemoveFile
    \/ GenerateBaseCharacter
    \/ GenerateConceptScene
    \/ ApplyEdits

Spec == Init /\ [][Next]_vars

(***************************************************************************)
(* The two client functions called directly, on a session that has stored  *)
(* nothing yet, with every shape of argument and of answer                 *)
(***************************************************************************)
\* reference_image arguments: None, bytes, an object with getvalue (open or
\* closed), any other object; "garbage" is bytes that are no image
ReferenceArguments ==
    {NoRef}
    \cup {[shape |-> sh, data |-> b] :
            sh \in {"bytes", "bytesio"}, b \in ApiImages \cup {"garbage"}}
    \cup {[shape |-> sh, data |-> None] : sh \in {"closed_bytesio", "other"}}

PromptArguments == {<<>>, <<"prompt">>}

FreshSession ==
    /\ base_character = None
    /\ DOMAIN concept_images = {}
    /\ uploaded_image = None
    /\ gen_ok = 0

CallGenerate ==
    /\ FreshSession
    /\ \E prompt \in PromptArguments, ref \in ReferenceArguments,
          resp \in GenResponses :
        \E g \in {generate_image(client, prompt, ref, resp)} :
           /\ run' = [Log("generate_image",
                          IF g.ok THEN "Accepted" ELSE "GenerationFailed")
                          EXCEPT !.ref = ref, !.warned = g.warned, !.final = g.data]
           /\ requests' = Sent(g)
    /\ UNCHANGED <<client, base_character, character_description, api_calls,
                   concept_images, uploaded_image, gen_ok>>

CallCritique ==
    /\ FreshSession
    /\ \E image \in ApiImages, resp \in CritResponses :
        \E a \in {analyze_image_and_get_fixes(client, image, resp)} :
           /\ run' = [Log("analyze_image_and_get_fixes", "none")
                          EXCEPT !.draft = image, !.critique = a.class,
                                 !.answer = resp.text, !.raised = a.raised,
                                 !.fixes = a.fixes]
           /\ requests' = Sent(a)
    /\ UNCHANGED <<client, base_character, character_description, api_calls,
                   concept_images, uploaded_image, gen_ok>>

LibNext == Next \/ CallGenerate \/ CallCritique

LibSpec == Init /\ [][LibNext]_vars

(***************************************************************************)
(* Reading the history                                                     *)
(***************************************************************************)
IsText(part) == part.kind = "text"

IsImage(part) == part.kind = "image"

TextSegments(request) == SelectSeq(request.parts, IsText)

ImageSegments(request) == SelectSeq(request.parts, IsImage)

IsGeneration(request) == request.model = "IMAGE_MODEL"

IsReview(request) == request.model = "REVIEW_MODEL"

\* the generation calls and the review calls of the last rerun, in order
GenerationCalls == SelectSeq(requests, IsGeneration)

ReviewCalls == SelectSeq(requests, IsReview)

Absent == "absent"

\* what the map holds under a label; a key can hold None or b"", which is
\* not the same as holding nothing
Stored(label) ==
    IF label \in DOMAIN concept_images THEN concept_images[label] ELSE Absent

\* the draft call of the last rerun, a concept run, returned
DraftReturned ==
    /\ run.handler = "concept"
    /\ requests # <<>>
    /\ IsGeneration(requests[1])
    /\ requests[1].returned

\* a concept run that got a draft and a list from the reviewer
Reviewed == DraftReturned /\ run.raised = "none"

\* the image segments of a request made with reference value img: None is
\* the absence of a reference, any byte string is attached as it is
CarriedAs(img) == IF img = None THEN <<>> ELSE <<ImagePart(img)>>

(***************************************************************************)
(* Claims                                                                  *)
(***************************************************************************)
\* the last rerun was a concept run whose draft call returned, whose review
\* gave a non-empty list and whose repair call failed
RepairFailed ==
    /\ Reviewed
    /\ run.fixes # <<>>
    /\ run.outcome = "GenerationFailed"

\* the draft is held by something that outlives the rerun
DraftRetrievable ==
    \/ base_character = run.draft
    \/ \E label \in DOMAIN concept_images : concept_images[label] = run.draft

\* C1: when the draft call succeeds, the review returns a non-empty FixList
\* and the repair call fails, the run ends in GenerationFailed and the draft
\* image is still retrievable afterwards.
C1_DraftKeptOnRepairFailure == RepairFailed => DraftRetrievable

\* C2: the call counter equals the number of generation calls that have
\* returned successfully so far.
C2_CounterCountsGenerations == api_calls = gen_ok

\* C3: in a concept run whose draft call succeeds and whose review returns an
\* empty FixList there is exactly one generation call, no repair call, and
\* the image stored under the concept label is the draft.
C3_EmptyFixListKeepsDraft ==
    (Reviewed /\ run.fixes = <<>>) =>
        /\ Len(GenerationCalls) = 1
        /\ Len(ReviewCalls) = 1
        /\ Len(requests) = 2
        /\ run.outcome = "Accepted"
        /\ Stored(run.concept) = run.draft

\* a run accepted on the empty JSON list, one generation call on the wire
C3_Witness ==
    /\ Reviewed
    /\ run.draft \in ApiImages
    /\ run.critique = "list"
    /\ run.fixes = <<>>
    /\ run.outcome = "Accepted"
    /\ Len(GenerationCalls) = 1
    /\ Stored(run.concept) = run.draft

\* a concept run that reached the repair stage
RepairRun == Reviewed /\ run.fixes # <<>>

RepairShape ==
    RepairRun =>
        /\ Len(requests) = 3
        /\ IsGeneration(requests[1])
        /\ IsReview(requests[2])
        /\ IsGeneration(requests[3])
        /\ run.ref.data = run.draft
        /\ ImageSegments(requests[3]) = CarriedAs(run.draft)
        /\ (run.outcome = "Accepted" <=> requests[3].returned)
        /\ (run.outcome = "Accepted" => Stored(run.concept) = run.final)

\* C4: a non-empty FixList of any length leads to exactly one repair call,
\* whose reference is what the draft call returned, never the character (the
\* request carries the draft bytes as its one image segment; a draft call
\* that returned None leaves the repair request without image segment), and
\* to no second review (two generation calls and one review call in all);
\* when the repair call succeeds the repaired image is stored under the
\* concept label and the counter has grown by two.
C4_OneRepairOnDraft ==
    [][/\ RepairShape'
       /\ (RepairRun' /\ run'.outcome = "Accepted") => api_calls' = api_calls + 2]_vars

\* a repair on a list of two fixes that succeeded with another image
C4_Witness ==
    /\ RepairRun
    /\ Len(run.fixes) = 2
    /\ run.outcome = "Accepted"
    /\ run.draft \in ApiImages
    /\ run.final \in ApiImages
    /\ run.final # run.draft
    /\ base_character # run.draft
    /\ ImageSegments(requests[3]) = <<ImagePart(run.draft)>>
    /\ Stored(run.concept) = run.final

GenerationCallFailed ==
    \E i \in 1..Len(requests) : IsGeneration(requests[i]) /\ ~requests[i].returned

DraftCallFailed ==
    requests # <<>> /\ IsGeneration(requests[1]) /\ ~requests[1].returned

\* C5: a concept run in which a generation call fails ends in
\* GenerationFailed and leaves the ConceptResult map as it was; when the
\* failing call is the draft call, or the run is refused for missing
\* credentials, the counter is unchanged too.
C5_FailedRunKeepsMap ==
    [][run'.handler = "concept" =>
         /\ GenerationCallFailed' =>
                /\ run'.outcome = "GenerationFailed"
                /\ concept_images' = concept_images
         /\ DraftCallFailed' => api_calls' = api_calls
         /\ ~client =>
                /\ run'.outcome # "Accepted"
                /\ concept_images' = concept_images
                /\ api_calls' = api_calls]_vars

\* a repair call failed for a label that holds an image of an earlier run
C5_Witness ==
    /\ RepairFailed
    /\ GenerationCallFailed
    /\ Stored(run.concept) \in ApiImages
    /\ Stored(run.concept) # run.draft

ReviewFailures ==
    {"no_client", "raise", "no_candidates", "no_content", "no_parts", "no_text",
     "bad_json", "not_list"}

\* C6: whatever goes wrong in the review (no client, transport error, no
\* candidates, no content or parts, no text, text that is no JSON, JSON that
\* is no list) the review raises nothing and returns the empty FixList, and
\* the concept run ends in Accepted with the draft stored under the label;
\* an error message follows only when the stored draft is itself no image.
C6_ReviewNeverFails ==
    run.critique \in ReviewFailures =>
        /\ run.raised = "none"
        /\ run.fixes = <<>>
        /\ run.handler = "concept" =>
               /\ DraftReturned
               /\ run.outcome = "Accepted"
               /\ Stored(run.concept) = run.draft
               /\ run.display = ResultDisplay(run.draft)

\* a concept run accepted although the answer of the reviewer had no text
C6_Witness ==
    /\ DraftReturned
    /\ run.draft \in ApiImages
    /\ run.display = "shown"
    /\ run.critique = "no_text"
    /\ run.outcome = "Accepted"
    /\ Stored(run.concept) = run.draft

\* C7: an edit of label L succeeds only for a key L of the map; it makes one
\* generation call, with the image held under L as reference (the request
\* carries those bytes as its one image segment), and no review; it stores
\* the result under "Edited_" + L, which is not L, and changes no other
\* entry.  A failed or refused edit leaves the map as it was.
C7_EditStoresDerivedEntry ==
    [][run'.handler = "edit" =>
         IF run'.outcome = "Accepted"
         THEN /\ run'.concept \in DOMAIN concept_images
              /\ <<"Edited_">> \o run'.concept # run'.concept
              /\ Len(requests') = 1
              /\ IsGeneration(requests'[1])
              /\ requests'[1].returned
              /\ run'.ref.data = concept_images[run'.concept]
              /\ Displayable(concept_images[run'.concept])
              /\ ImageSegments(requests'[1]) =
                     <<ImagePart(concept_images[run'.concept])>>
              /\ DOMAIN concept_images' =
                     DOMAIN concept_images \cup {<<"Edited_">> \o run'.concept}
              /\ concept_images'[<<"Edited_">> \o run'.concept] = run'.final
              /\ \A label \in DOMAIN concept_images :
                     label # <<"Edited_">> \o run'.concept =>
                         concept_images'[label] = concept_images[label]
         ELSE concept_images' = concept_images]_vars

\* an edit stored next to its origin, with another image than the origin
C7_Witness ==
    /\ run.handler = "edit"
    /\ run.outcome = "Accepted"
    /\ Stored(run.concept) \in ApiImages
    /\ run.final \in ApiImages
    /\ ImageSegments(requests[1]) = <<ImagePart(Stored(run.concept))>>
    /\ Stored(<<"Edited_">> \o run.concept) = run.final
    /\ Stored(run.concept) # run.final

\* a reference argument the request can carry: bytes, or an open object
\* with getvalue
UsableReference(ref) == ref.shape \in {"bytes", "bytesio"} /\ ref.data \in ApiImages

\* C8: every request built by generate_image has exactly one text segment
\* and at most one image segment: none without a reference image, exactly
\* one, carrying the reference, with a valid one.
C8_RequestShape ==
    /\ \A i \in 1..Len(requests) :
          IsGeneration(requests[i]) =>
              /\ Len(TextSegments(requests[i])) = 1
              /\ Len(ImageSegments(requests[i])) <= 1
    /\ (run.handler = "generate_image" /\ requests # <<>>) =>
          /\ run.ref = NoRef => ImageSegments(requests[1]) = <<>>
          /\ UsableReference(run.ref) =>
                ImageSegments(requests[1]) = <<ImagePart(run.ref.data)>>
    /\ (run.handler = "character" /\ requests # <<>>) =>
          ImageSegments(requests[1]) = <<>>

\* a direct call with an open file-like reference sent text and image
C8_Witness ==
    /\ run.handler = "generate_image"
    /\ run.ref.shape = "bytesio"
    /\ UsableReference(run.ref)
    /\ Len(requests) = 1
    /\ Len(requests[1].parts) = 2

\* a reference argument that is no image: an object of another shape, an
\* object whose getvalue raises, or bytes that decode to no image
Malformed(ref) ==
    \/ ref.shape \in {"other", "closed_bytesio"}
    \/ ref.shape \in {"bytes", "bytesio"} /\ ref.data = "garbage"

\* C9: with a malformed reference image (unsupported shape or undecodable
\* bytes) the request is sent text-only, with a warning, and the call does
\* not fail because of the reference.
C9_MalformedReferenceDropped ==
    (run.handler = "generate_image" /\ client /\ Malformed(run.ref)) =>
        /\ Len(requests) = 1
        /\ ImageSegments(requests[1]) = <<>>
        /\ run.warned

\* C9 as the code has it: a reference of unsupported shape, or whose
\* getvalue raises, is dropped with a warning and the request is sent
\* text-only; bytes are never decoded, so bytes that are no image are sent as
\* the one image segment, without a warning.
C9_UnsupportedShapeDropped ==
    (run.handler = "generate_image" /\ client) =>
        /\ run.ref.shape \in {"other", "closed_bytesio"} =>
              /\ Len(requests) = 1
              /\ Len(TextSegments(requests[1])) = 1
              /\ ImageSegments(requests[1]) = <<>>
              /\ run.warned
        /\ (run.ref.shape \in {"bytes", "bytesio"} /\ run.ref.data = "garbage") =>
              /\ Len(requests) = 1
              /\ ImageSegments(requests[1]) = <<ImagePart("garbage")>>
              /\ ~run.warned

\* a direct call with an object of unsupported shape that returned an image
C9_Witness ==
    /\ run.handler = "generate_image"
    /\ run.ref.shape = "other"
    /\ run.warned
    /\ run.outcome = "Accepted"
    /\ Len(requests) = 1

\* C10: after a successful generate-character action the stored reference
\* image is the image that call returned, whatever was stored before and
\* whether or not the uploader holds a file.
C10_GeneratedCharacterStored ==
    (run.handler = "character" /\ run.outcome = "Accepted") =>
        base_character = run.final

\* the JSON lists a text holds between an opening fence, with the json tag
\* or without a tag, and a closing fence
FencedLists(text) ==
    {doc \in JsonLists :
        \E open \in {FenceJson, Fence}, gap \in Gaps :
            Strip(text) = <<open>> \o gap \o <<doc>> \o gap \o <<Fence>>}

\* the review was asked and answered with text
ReviewAnswered ==
    /\ run.handler \in {"analyze_image_and_get_fixes", "concept"}
    /\ run.critique \in {"list", "not_list", "bad_json"}

\* C11: when the answer of the reviewer is a JSON list wrapped in a code
\* fence, with or without a language tag, the review returns that list, and
\* in a concept run a non-empty fenced list leads to the repair stage.
C11_FencedListReturned ==
    ReviewAnswered =>
        \A doc \in FencedLists(run.answer) :
            /\ run.fixes = ListOf(doc)
            /\ (run.handler = "concept" /\ ListOf(doc) # <<>>) => Len(requests) = 3

\* C12: every key of the ConceptResult map that starts with "Edited_" has its
\* origin label, the key without the prefix, in the map too, so the gallery
\* never looks up an absent label.
C12_EditedKeysHaveOrigin ==
    /\ \A label \in DOMAIN concept_images :
          IsEdited(label) => OriginOf(label) \in DOMAIN concept_images
    /\ ~MissingOrigin(concept_images)

====
